---- MODULE Spec2Model ----
(***************************************************************************)
(* Model of libvin/decoding.py: class Vin, a value object wrapping one     *)
(* upper-cased VIN string, and its read-only accessors.                    *)
(*                                                                         *)
(* A Python string is a sequence of one-character strings.  The outcome of *)
(* an accessor is a record tagged with its kind: "bool", "text" (a name    *)
(* taken from a table), "chars" (a slice of the VIN), "int" (a year) or    *)
(* "raise" (the accessor ended in an exception, named in field t).         *)
(*                                                                         *)
(* The tables of libvin/static.py (imported at decoding.py:12) are not     *)
(* part of the sources at hand; they are modelled from the description of  *)
(* the static tables in the specification.                                 *)
(***************************************************************************)
EXTENDS Naturals, Integers, Sequences, FiniteSets, TLC

VARIABLES raw, vin, op, result, firstOp, firstRes, calls

vars == <<raw, vin, op, result, firstOp, firstRes, calls>>

----------------------------------------------------------------------------
(* Bounds of the explored inputs *)

\* longest input string (a full VIN has 17 characters)
MaxLen == 18

\* longest string built freely from ShortChars
MaxShort == 2

\* longest sequence of queries made on one object
MaxCalls == 3

----------------------------------------------------------------------------
(* Characters *)

Digits == {"0","1","2","3","4","5","6","7","8","9"}

UpperLetters == {"A","B","C","D","E","F","G","H","I","J","K","L","M",
                 "N","O","P","Q","R","S","T","U","V","W","X","Y","Z"}

\* str.upper() on the lower-case letters that occur in the inputs
LowerMap == ("a" :> "A") @@ ("h" :> "H") @@ ("i" :> "I") @@ ("o" :> "O") @@
            ("q" :> "Q") @@ ("u" :> "U") @@ ("x" :> "X") @@ ("z" :> "Z")

Punctuation == {" ", "-"}

InputChars == Digits \cup UpperLetters \cup DOMAIN LowerMap \cup Punctuation

ShortChars == {"1", "9", "8", "A", "I", "q", "-"}

----------------------------------------------------------------------------
(* Outcomes of a call *)

Bool(b)  == [kind |-> "bool",  b |-> b,     t |-> "", s |-> <<>>, n |-> 0]
Text(t)  == [kind |-> "text",  b |-> FALSE, t |-> t,  s |-> <<>>, n |-> 0]
Chars(s) == [kind |-> "chars", b |-> FALSE, t |-> "", s |-> s,    n |-> 0]
Number(n) == [kind |-> "int",   b |-> FALSE, t |-> "", s |-> <<>>, n |-> n]
Raise(e) == [kind |-> "raise", b |-> FALSE, t |-> e,  s |-> <<>>, n |-> 0]
NoResult == [kind |-> "none",  b |-> FALSE, t |-> "", s |-> <<>>, n |-> 0]

----------------------------------------------------------------------------
(* Python string primitives *)

\* s[i] for an index i >= 0 that is in range (0-based)
At(s, i) == s[i + 1]

Min(a, b) == IF a < b THEN a ELSE b
Max(a, b) == IF a > b THEN a ELSE b

\* s[a:b] for 0 <= a <= b: clamped to the string, never raises
PySlice(s, a, b) == SubSeq(s, Min(a, Len(s)) + 1, Min(b, Len(s)))

\* s[-n:] for n > 0: the last n characters, the whole string when shorter
PyTail(s, n) == SubSeq(s, Max(Len(s) - n, 0) + 1, Len(s))

\* str.upper()
UpperIdentity(s) == s
Upper(s) == [k \in 1..Len(s) |->
               IF s[k] \in DOMAIN LowerMap THEN LowerMap[s[k]] ELSE s[k]]

\* str.isdigit() of one character
IsDigit(c) == c \in Digits

\* str(n) for 0 <= n <= 9
DigitChar(n) == <<"0","1","2","3","4","5","6","7","8","9">>[n + 1]

\* int(c) of one digit character
DigitValue(c) == CHOOSE n \in 0..9 : DigitChar(n) = c

----------------------------------------------------------------------------
(* Static tables (libvin/static.py) *)

VIN_WEIGHT == <<8, 7, 6, 5, 4, 3, 2, 10, 0, 9, 8, 7, 6, 5, 4, 3, 2>>

VIN_TRANSLATION ==
    ("A" :> 1) @@ ("B" :> 2) @@ ("C" :> 3) @@ ("D" :> 4) @@ ("E" :> 5) @@
    ("F" :> 6) @@ ("G" :> 7) @@ ("H" :> 8) @@
    ("J" :> 1) @@ ("K" :> 2) @@ ("L" :> 3) @@ ("M" :> 4) @@ ("N" :> 5) @@
    ("P" :> 7) @@ ("R" :> 9) @@
    ("S" :> 2) @@ ("T" :> 3) @@ ("U" :> 4) @@ ("V" :> 5) @@ ("W" :> 6) @@
    ("X" :> 7) @@ ("Y" :> 8) @@ ("Z" :> 9) @@
    ("0" :> 0) @@ ("1" :> 1) @@ ("2" :> 2) @@ ("3" :> 3) @@ ("4" :> 4) @@
    ("5" :> 5) @@ ("6" :> 6) @@ ("7" :> 7) @@ ("8" :> 8) @@ ("9" :> 9)

\* the characters a first position may carry, by region
AfricaKeys       == {"A","B","C","D","E","F","G","H"}
AsiaKeys         == {"J","K","L","M","N","P","R"}
EuropeKeys       == {"S","T","U","V","W","X","Y","Z"}
NorthAmericaKeys == {"1","2","3","4","5"}
OceaniaKeys      == {"6","7"}
SouthAmericaKeys == {"8","9"}

RegionOf(k) ==
    CASE k \in AfricaKeys       -> "Africa"
      [] k \in AsiaKeys         -> "Asia"
      [] k \in EuropeKeys       -> "Europe"
      [] k \in NorthAmericaKeys -> "North America"
      [] k \in OceaniaKeys      -> "Oceania"
      [] k \in SouthAmericaKeys -> "South America"

\* the country table of a first character: pairs <<set of codes, country>>
\* with pairwise disjoint sets of codes
CountriesOf(k) ==
    CASE k = "A" -> << <<{"A","B","C","D","E","F","G","H"}, "South Africa">>,
                       <<{"J","K","L","M","N"}, "Ivory Coast">> >>
      [] k = "B" -> << <<{"A","B","C","D","E"}, "Angola">>,
                       <<{"F","G","H","J","K"}, "Kenya">> >>
      [] k = "J" -> << <<DOMAIN VIN_TRANSLATION, "Japan">> >>
      [] k = "S" -> << <<{"A","B","C","D","E","F","G","H","J","K","L","M"},
                         "United Kingdom">>,
                       <<{"N","P","R","S","T"}, "Germany">>,
                       <<{"U","V","W","X","Y","Z"}, "Poland">> >>
      [] k = "W" -> << <<DOMAIN VIN_TRANSLATION, "Germany">> >>
      [] k = "1" -> << <<DOMAIN VIN_TRANSLATION, "United States">> >>
      [] k = "2" -> << <<DOMAIN VIN_TRANSLATION, "Canada">> >>
      [] k = "3" -> << <<DOMAIN VIN_TRANSLATION, "Mexico">> >>
      [] k = "8" -> << <<{"A","B","C","D","E"}, "Argentina">>,
                       <<{"F","G","H","J","K"}, "Chile">> >>
      [] k = "9" -> << <<{"A","B","C","D","E","3","4","5","6","7","8","9"},
                         "Brazil">>,
                       <<{"F","G","H","J","K"}, "Colombia">> >>
      [] OTHER   -> << >>

WORLD_MANUFACTURER_MAP ==
    [k \in AfricaKeys \cup AsiaKeys \cup EuropeKeys \cup NorthAmericaKeys
           \cup OceaniaKeys \cup SouthAmericaKeys |->
        [region |-> RegionOf(k), countries |-> CountriesOf(k)]]

\* keys of three and of two characters
WMI_MAP ==
    (<<"1","H","G">> :> "Honda") @@
    (<<"1","M","8">> :> "Motor Coach Industries") @@
    (<<"9","B","W">> :> "Volkswagen") @@
    (<<"1","H">>     :> "Honda") @@
    (<<"9","B">>     :> "Volkswagen") @@
    (<<"J","H">>     :> "Honda")

\* the letter codes of the model year in their order (no I, O, Q, U, Z)
YearLetters == <<"A","B","C","D","E","F","G","H","J","K","L","M","N","P",
                 "R","S","T","V","W","X","Y">>

YEARS_CODES_PRE_2010 ==
    [c \in {YearLetters[k] : k \in 1..21} \cup (Digits \ {"0"}) |->
        IF IsDigit(c) THEN 2000 + DigitValue(c)
        ELSE 1979 + (CHOOSE k \in 1..21 : YearLetters[k] = c)]

YEARS_CODES_PRE_2040 ==
    [c \in {YearLetters[k] : k \in 1..21} \cup (Digits \ {"0"}) |->
        IF IsDigit(c) THEN 2030 + DigitValue(c)
        ELSE 2009 + (CHOOSE k \in 1..21 : YearLetters[k] = c)]

\* no vehicle before 2000: Y and 1..9 are 2000..2009, the letters 2010..2029
YEARS_CODES_BRAZIL ==
    [c \in {YearLetters[k] : k \in 1..21} \cup (Digits \ {"0"}) |->
        IF IsDigit(c) THEN 2000 + DigitValue(c)
        ELSE IF c = "Y" THEN 2000
        ELSE 2009 + (CHOOSE k \in 1..21 : YearLetters[k] = c)]

----------------------------------------------------------------------------
(* class Vin *)

\* table[self.vin[i]]: IndexError from the index, KeyError from the lookup
Lookup(table, v, i) ==
    IF i >= Len(v) THEN Raise("IndexError")
    ELSE IF At(v, i) \notin DOMAIN table THEN Raise("KeyError")
    ELSE Number(table[At(v, i)])

decode(v) == Chars(v)

country(v) ==
    IF Len(v) = 0 THEN Raise("IndexError")
    ELSE IF At(v, 0) \notin DOMAIN WORLD_MANUFACTURER_MAP THEN Raise("KeyError")
    ELSE LET countries == WORLD_MANUFACTURER_MAP[At(v, 0)].countries
             hits == {k \in 1..Len(countries) : At(v, 0) \in countries[k][1]}
         IN  IF hits = {} THEN Text("Unknown")
             ELSE Text(countries[CHOOSE k \in hits : TRUE][2])

region(v) ==
    IF Len(v) = 0 THEN Raise("IndexError")
    ELSE IF At(v, 0) \notin DOMAIN WORLD_MANUFACTURER_MAP THEN Raise("KeyError")
    ELSE Text(WORLD_MANUFACTURER_MAP[At(v, 0)].region)

is_pre_2010(v) ==
    IF Len(v) <= 6 THEN Raise("IndexError") ELSE Bool(IsDigit(At(v, 6)))

\* sum(products) of is_valid, over positions k..Len(v) (1-based)
RECURSIVE SumProducts(_, _)
SumProducts(v, k) ==
    IF k > Len(v) THEN 0
    ELSE VIN_WEIGHT[k] * VIN_TRANSLATION[v[k]] + SumProducts(v, k + 1)

\* str(check_digit) of is_valid: the remainder, 10 written X
check_digit_no_X(v) ==
    LET r == SumProducts(v, 1) % 11
    IN  IF r = 10 THEN <<"1", "0">> ELSE <<DigitChar(r)>>
check_digit(v) ==
    LET r == SumProducts(v, 1) % 11
    IN  IF r = 10 THEN <<"X">> ELSE <<DigitChar(r)>>

is_valid_no_length_gate(v) ==
    IF \E k \in 1..Len(v) : v[k] \in {"I", "O", "Q"} THEN Bool(FALSE)
    ELSE IF Len(v) <= 9 THEN Raise("IndexError")
    ELSE IF At(v, 9) \in {"U", "Z", "0"} THEN Bool(FALSE)
    ELSE IF Len(v) > Len(VIN_WEIGHT) THEN Raise("IndexError")
    ELSE IF \E k \in 1..Len(v) : v[k] \notin DOMAIN VIN_TRANSLATION
         THEN Raise("KeyError")
    ELSE IF <<At(v, 8)>> # check_digit(v) THEN Bool(FALSE)
    ELSE Bool(TRUE)
is_valid(v) ==
    IF Len(v) # 17 THEN Bool(FALSE)
    ELSE IF \E k \in 1..Len(v) : v[k] \in {"I", "O", "Q"} THEN Bool(FALSE)
    ELSE IF At(v, 9) \in {"U", "Z", "0"} THEN Bool(FALSE)
    ELSE IF \E k \in 1..Len(v) : v[k] \notin DOMAIN VIN_TRANSLATION
         THEN Raise("KeyError")
    ELSE IF <<At(v, 8)>> # check_digit(v) THEN Bool(FALSE)
    ELSE Bool(TRUE)

\* int(c) is 9, a ValueError of int() caught and turned into False
less_than_500_built_per_year(v) ==
    IF Len(v) <= 2 THEN Raise("IndexError")
    ELSE IF ~IsDigit(At(v, 2)) THEN Bool(FALSE)
    ELSE Bool(DigitValue(At(v, 2)) = 9)

vis_from_9(v) == Chars(PyTail(v, 9))
vis(v) == Chars(PyTail(v, 8))

vds_to_8(v) == Chars(PySlice(v, 3, 8))
vds(v) == Chars(PySlice(v, 3, 9))

vsn(v) ==
    LET few == less_than_500_built_per_year(v)
    IN  IF few.kind = "raise" THEN few
        ELSE IF few.b THEN Chars(PyTail(v, 3))
        ELSE Chars(PyTail(v, 6))

wmi(v) == Chars(PySlice(v, 0, 3))

manufacturer(v) ==
    LET w == wmi(v).s
    IN  IF PySlice(w, 0, 3) \in DOMAIN WMI_MAP
            THEN Text(WMI_MAP[PySlice(w, 0, 3)])
        ELSE IF PySlice(w, 0, 2) \in DOMAIN WMI_MAP
            THEN Text(WMI_MAP[PySlice(w, 0, 2)])
        ELSE Text("Unknown")

year_pre_2010_first(v) ==
    LET pre == is_pre_2010(v)
    IN  IF pre.kind = "raise" THEN pre
        ELSE IF pre.b THEN Lookup(YEARS_CODES_PRE_2010, v, 9)
        ELSE LET c == country(v)
             IN  IF c.kind = "raise" THEN c
                 ELSE IF c = Text("Brazil")
                     THEN Lookup(YEARS_CODES_BRAZIL, v, 9)
                 ELSE Lookup(YEARS_CODES_PRE_2040, v, 9)
year(v) ==
    LET c == country(v)
    IN  IF c.kind = "raise" THEN c
        ELSE IF c = Text("Brazil") THEN Lookup(YEARS_CODES_BRAZIL, v, 9)
        ELSE LET pre == is_pre_2010(v)
             IN  IF pre.kind = "raise" THEN pre
                 ELSE IF pre.b THEN Lookup(YEARS_CODES_PRE_2010, v, 9)
                 ELSE Lookup(YEARS_CODES_PRE_2040, v, 9)

model(v) == Text("")

engine(v) == Text("")

----------------------------------------------------------------------------
(* Inputs of the constructor *)

VIN_HONDA == <<"1","H","G","C","M","8","2","6","3","3","A","0","0","4","3","5","2">>
VIN_MCI   == <<"1","M","8","G","D","M","9","A","X","K","P","0","4","2","7","8","8">>
VIN_VW    == <<"9","B","W","Z","Z","Z","A","7","7","V","T","0","0","4","2","5","1">>

BaseVins == {VIN_HONDA, VIN_MCI, VIN_VW}

\* a base VIN cut short, or extended up to MaxLen characters
Resized == {SubSeq(b, 1, n) : b \in BaseVins, n \in 0..17} \cup
           {b \o [k \in 1..n |-> "7"] : b \in BaseVins, n \in 1..(MaxLen - 17)}

\* a base VIN with one character replaced
Substituted == {[b EXCEPT ![p] = c] : b \in BaseVins, p \in 1..17, c \in InputChars}

\* every string of at most MaxShort characters of ShortChars
Short == UNION {[1..n -> ShortChars] : n \in 0..MaxShort}

Inputs == Resized \cup Substituted \cup Short

----------------------------------------------------------------------------
(* The object: construction, then any sequence of queries *)

\* Vin.__init__
Init ==
    /\ raw \in Inputs
    /\ vin = Upper(raw)
    /\ op = "__init__"
    /\ result = NoResult
    /\ firstOp = "__init__"
    /\ firstRes = NoResult
    /\ calls = 0

\* bookkeeping of a query that leaves the object alone: the query and its
\* outcome are recorded, and the first query made is remembered
Query(name, outcome) ==
    /\ calls < MaxCalls
    /\ calls' = calls + 1
    /\ op' = name
    /\ result' = outcome
    /\ firstOp' = IF firstOp = "__init__" THEN name ELSE firstOp
    /\ firstRes' = IF firstOp = "__init__" THEN outcome ELSE firstRes
    /\ UNCHANGED <<raw, vin>>

Get_decode_lowering ==
    /\ calls < MaxCalls
    /\ calls' = calls + 1
    /\ op' = "decode"
    /\ result' = decode(vin)
    /\ firstOp' = IF firstOp = "__init__" THEN "decode" ELSE firstOp
    /\ firstRes' = IF firstOp = "__init__" THEN decode(vin) ELSE firstRes
    /\ vin' = [k \in 1..Len(vin) |-> IF vin[k] = "A" THEN "a" ELSE vin[k]]
    /\ UNCHANGED raw
Get_decode == Query("decode", decode(vin))

Get_is_valid == Query("is_valid", is_valid(vin))

Get_is_pre_2010 == Query("is_pre_2010", is_pre_2010(vin))

Get_less_than_500_built_per_year == Query("less_than_500_built_per_year", less_than_500_built_per_year(vin))

Get_country == Query("country", country(vin))

Get_region == Query("region", region(vin))

Get_manufacturer == Query("manufacturer", manufacturer(vin))

Get_year == Query("year", year(vin))

Get_wmi == Query("wmi", wmi(vin))

Get_vds == Query("vds", vds(vin))

Get_vis == Query("vis", vis(vin))

Get_vsn == Query("vsn", vsn(vin))

Get_model == Query("model", model(vin))

Get_engine == Query("engine", engine(vin))

Next ==
    \/ Get_decode
    \/ Get_is_valid
    \/ Get_is_pre_2010
    \/ Get_less_than_500_built_per_year
    \/ Get_country
    \/ Get_region
    \/ Get_manufacturer
    \/ Get_year
    \/ Get_wmi
    \/ Get_vds
    \/ Get_vis
    \/ Get_vsn
    \/ Get_model
    \/ Get_engine

Spec == Init /\ [][Next]_vars

----------------------------------------------------------------------------
(* Properties *)

ChecksumAlphabet == (Digits \cup UpperLetters) \ {"I", "O", "Q"}

\* the sum over i in 0..hi of weight[i] * translation[v[i]]
RECURSIVE WeightedSum(_, _)
WeightedSum(v, hi) ==
    IF hi < 0 THEN 0
    ELSE WeightedSum(v, hi - 1) + VIN_WEIGHT[hi + 1] * VIN_TRANSLATION[At(v, hi)]

ExpectedCheckChar(v) ==
    IF WeightedSum(v, 16) % 11 = 10 THEN "X"
    ELSE DigitChar(WeightedSum(v, 16) % 11)

ChecksumInput(v) ==
    /\ Len(v) = 17
    /\ \A k \in 1..17 : v[k] \in ChecksumAlphabet
    /\ At(v, 9) \notin {"U", "Z", "0"}

\* C1: on a 17-character string over the checksum alphabet whose position 9
\* is not U, Z or 0, is_valid is true exactly when position 8 carries the
\* expected check character (X for a remainder of 10, else the digit).
Thm_C1 ==
    (op = "is_valid" /\ ChecksumInput(vin))
        => result = Bool(At(vin, 8) = ExpectedCheckChar(vin))

Wit_C1 ==
    /\ op = "is_valid" /\ ChecksumInput(vin)
    /\ At(vin, 8) = "X" /\ result = Bool(TRUE)

\* C2: country, region and manufacturer return a string for every input and
\* never raise; an unmapped first character (or none) gives "Unknown".
Claim_C2 ==
    /\ op \in {"country", "region", "manufacturer"} => result.kind = "text"
    /\ (/\ op \in {"country", "region"}
        /\ (Len(vin) = 0 \/ vin[1] \notin DOMAIN WORLD_MANUFACTURER_MAP))
           => result = Text("Unknown")

\* C3: is_valid is false, and does not raise, on every string whose length
\* is not 17.
Thm_C3 == (op = "is_valid" /\ Len(vin) # 17) => result = Bool(FALSE)

Wit_C3 ==
    /\ op = "is_valid" /\ Len(vin) = 5 /\ result = Bool(FALSE)
    /\ \A k \in 1..Len(vin) : vin[k] \notin {"I", "O", "Q"}

\* C4: is_valid is false on every input that holds an I, O or Q, in upper
\* or lower case, at any position.
Thm_C4 ==
    (op = "is_valid" /\ \E k \in 1..Len(raw) :
                            raw[k] \in {"I", "O", "Q", "i", "o", "q"})
        => result = Bool(FALSE)

Wit_C4 ==
    /\ op = "is_valid" /\ Len(raw) = 17 /\ result = Bool(FALSE)
    /\ \E k \in 1..Len(raw) : raw[k] \in {"i", "o", "q"}
    /\ At(raw, 9) \notin {"U", "Z", "0", "u", "z"}

\* C5 as stated: for 1HGCM82633A004352, wmi is 1HG, vds is CM8263 and vis
\* is 33A004352.
Claim_C5 ==
    vin = VIN_HONDA =>
        /\ op = "wmi" => result = Chars(<<"1","H","G">>)
        /\ op = "vds" => result = Chars(<<"C","M","8","2","6","3">>)
        /\ op = "vis" => result = Chars(<<"3","3","A","0","0","4","3","5","2">>)

\* C5 amended: for 1HGCM82633A004352, wmi is 1HG, vds is CM8263 and vis is
\* 3A004352, the last eight characters.
Thm_C5 ==
    vin = VIN_HONDA =>
        /\ op = "wmi" => result = Chars(<<"1","H","G">>)
        /\ op = "vds" => result = Chars(<<"C","M","8","2","6","3">>)
        /\ op = "vis" => result = Chars(<<"3","A","0","0","4","3","5","2">>)

Wit_C5 == vin = VIN_HONDA /\ op = "vis" /\ firstOp = "wmi" /\ calls = 3

IsSubstring(t, v) ==
    \E i \in 0..Len(v) : i + Len(t) <= Len(v) /\ SubSeq(v, i + 1, i + Len(t)) = t

\* C6: wmi, vds, vis and vsn return a substring of the VIN for every input,
\* however short, and never raise.
Claim_C6 ==
    op \in {"wmi", "vds", "vis", "vsn"}
        => result.kind = "chars" /\ IsSubstring(result.s, vin)

\* the entry of a year table for the character at position 9
HasEntry(table, v) == Len(v) > 9 /\ At(v, 9) \in DOMAIN table
Entry(table, v) == Number(table[At(v, 9)])

\* C7: when the country is Brazil, year is the Brazil table's entry for
\* position 9 whatever position 6 is; otherwise it is the pre-2010 table's
\* entry when position 6 is a digit and the 2010-2039 table's entry when not.
Thm_C7 ==
    op = "year" =>
        /\ (country(vin) = Text("Brazil") /\ HasEntry(YEARS_CODES_BRAZIL, vin))
              => result = Entry(YEARS_CODES_BRAZIL, vin)
        /\ (/\ country(vin).kind = "text" /\ country(vin) # Text("Brazil")
            /\ HasEntry(YEARS_CODES_PRE_2010, vin) /\ IsDigit(At(vin, 6)))
              => result = Entry(YEARS_CODES_PRE_2010, vin)
        /\ (/\ country(vin).kind = "text" /\ country(vin) # Text("Brazil")
            /\ HasEntry(YEARS_CODES_PRE_2040, vin) /\ ~IsDigit(At(vin, 6)))
              => result = Entry(YEARS_CODES_PRE_2040, vin)

Wit_C7 ==
    /\ op = "year" /\ country(vin) = Text("Brazil")
    /\ HasEntry(YEARS_CODES_BRAZIL, vin) /\ ~IsDigit(At(vin, 6))
    /\ result = Number(2005)
    /\ YEARS_CODES_PRE_2040[At(vin, 9)] # 2005

\* C8: whatever queries are made, and whether or not they raise, the stored
\* VIN stays the upper-cased constructor input, and a query made again gives
\* what it gave the first time.
Thm_C8 ==
    /\ vin = Upper(raw)
    /\ op = firstOp => result = firstRes

Wit_C8 ==
    /\ calls = 3 /\ op = firstOp /\ op = "year" /\ result.kind = "raise"
    /\ \E k \in 1..Len(raw) : raw[k] # vin[k]

\* C9: is_valid gives a boolean, never an error, on every string of 17
\* characters, also one holding a character without a translation value.
Claim_C9 == (op = "is_valid" /\ Len(vin) = 17) => result.kind = "bool"

\* C10: on a string of 17 characters wmi, vds and vis have 3, 6 and 8
\* characters, wmi + vds + vis is the stored VIN, and vds ends with the
\* character at position 8.
Thm_C10 ==
    Len(vin) = 17 =>
        /\ op = "wmi" => /\ Len(result.s) = 3
                         /\ result.s \o vds(vin).s \o vis(vin).s = vin
        /\ op = "vds" => /\ Len(result.s) = 6
                         /\ wmi(vin).s \o result.s \o vis(vin).s = vin
                         /\ result.s[6] = At(vin, 8)
        /\ op = "vis" => /\ Len(result.s) = 8
                         /\ wmi(vin).s \o vds(vin).s \o result.s = vin

Wit_C10 == Len(vin) = 17 /\ op = "vds" /\ firstOp = "vis" /\ result.kind = "chars"

====
